---- MODULE Spec2Model ----
(***************************************************************************)
(* Lift-bank simulation engine of subsystem_2/subsystem2.py: the Lift      *)
(* state machine (queue, board, depart, round trip, arrive), the four      *)
(* assignment strategies and the Simulation driver (run / step).           *)
(*                                                                         *)
(* Passengers are the dicts of the traffic feed; a passenger is named by   *)
(* its position 1..total_traffic in the feed and its dict is P[pid].       *)
(* A dict key that has not been written yet reads None.                    *)
(* Times computed by the kinematic model are real numbers in the code;     *)
(* they are kept here in units of 1/Scale tick, rounded down, together     *)
(* with a flag telling whether the value is exact, so that math.ceil is    *)
(* computed as the code computes it (see CeilTime).                        *)
(* Not modelled: logging, loc_history, passenger_travel_times, history,    *)
(* assignment_times, func_name (bookkeeping that no operation reads).       *)
(***************************************************************************)
EXTENDS Integers, Sequences, FiniteSets, TLC

(***************************************************************************)
(* Bounds of the model.                                                    *)
(***************************************************************************)
NumLifts == 2          \* lifts built by Simulation.__init__ (8 in the code)
MaxCapacity == 2       \* lift capacities 1..MaxCapacity
MaxTraffic == 3        \* passengers in the traffic feed: 0..MaxTraffic
MaxFloor == 2          \* destination floors 0..MaxFloor
MaxStart == 1          \* time.start values 0..MaxStart
MaxIterations == 24    \* iteration cap handed to Simulation(...)
GreedyLifts == 4       \* lifts in the calls of assign_greedy checked alone
MaxQueue == 4          \* their queue lengths: 0..MaxQueue
AvgCapacity == 4       \* capacities 1..AvgCapacity in the calls of get_avg_floor
AvgBatch == 5          \* boarded + queued passengers in those calls: 0..AvgBatch
TripBatch == 4         \* passengers carried by the departures checked alone: 1..TripBatch
WaitCapacity == 3      \* capacity of the lift in the waiting timeouts checked alone
GroupLifts == 3        \* lifts in the calls of assign_grouping checked alone
GroupCapacity == 3     \* their capacity: 1..GroupCapacity
AdmitTraffic == 6      \* passengers in the feeds of the crowded runs: 0..AdmitTraffic
AdmitIterations == 3   \* iteration cap of the crowded runs

(***************************************************************************)
(* Program constants.                                                      *)
(***************************************************************************)
vmax == 5              \* Lift.__init__ default vmax=5.0
acc == 1               \* Lift.__init__ default acc=1.0
door_time == 0         \* Lift.__init__ default door_time=0.0
floor_height == 4      \* Lift.__init__ default floor_height=4.0
WaitLimit == 10        \* check_departure: waiting_time > 10
GroupingFloor == 5     \* assign_grouping: get_avg_floor() < 5
MinBatch == 2          \* step: np.random.randint(2, 5)
MaxBatch == 4          \* step: np.random.randint(2, 5), upper end excluded
Scale == 1000          \* resolution of modelled real times: 1/Scale tick
None == 0 - 1          \* a dict key not written yet / Python None

Names == {"greedy", "nearest", "grouping", "random"}
\* capacity_threshold as a fraction <<numerator, denominator>>: 0.0, 0.5, 1.0
Thresholds == {<<0, 1>>, <<1, 2>>, <<1, 1>>}
\* destinations of the passengers in the calls of get_avg_floor
AvgDestinations == {0, 3, 7}
\* destinations queued on a lift in the calls of assign_grouping checked alone
GroupBatches == {<<>>, <<0>>, <<3>>, <<7>>, <<3, 7>>, <<7, 7>>}
\* destinations of the passenger handed to assign_grouping in those calls
GroupDestinations == {0, 3, 7}
\* destinations of the passengers in the departures checked alone
TripDestinations == {0, 2, 5, 8}
\* arguments handed to set_capacity_threshold: floats, as fractions, and the
\* type object float itself
CtArguments ==
    {[type |-> "float", val |-> v] :
        v \in {<<0 - 1, 2>>, <<0, 1>>, <<1, 4>>, <<1, 2>>, <<1, 1>>, <<3, 2>>}}
    \cup {[type |-> "type", val |-> <<0, 1>>]}
NoCall == [lift |-> None, ct |-> [type |-> "none", val |-> <<0, 1>>]]
StampedFields == {"time_lobby", "lift_id", "time_enter_lift", "time_departure",
                  "time_travelling", "time_arrival"}

VARIABLES
    pc,               \* position in the caller / run(): "setup", "running",
                      \* "done"; "assign", "assigned"; "avg", "avg_done";
                      \* "check", "checked"; "set", "set_done"
    err,              \* last exception raised to the caller, "none" if none
    iterations,       \* Simulation.iterations
    clock,            \* Simulation.clock
    traffic,          \* Simulation.traffic: <<None>> for None, else the
                      \* remaining feed (pids)
    total_traffic,    \* Simulation.total_traffic
    assignment_func,  \* Simulation.assignment_func: "None" or a strategy name
    q,                \* Simulation.q
    lifts,            \* Simulation.lifts: lift index -> Lift fields
    arrivals,         \* Simulation.arrivals
    P,                \* the passenger dicts, by pid
    W,                \* history: number of writes of each stamped key, by pid
    departs,          \* history: number of depart() calls, by lift
    returns,          \* history: number of check_arrival() matches, by lift
    ret,              \* return value of the last pure call (get_avg_floor)
    call              \* the lift and the argument of a call of
                      \* set_capacity_threshold, NoCall if there is none

vars == <<pc, err, iterations, clock, traffic, total_traffic, assignment_func,
          q, lifts, arrivals, P, W, departs, returns, ret, call>>

(***************************************************************************)
(* Helpers.                                                                *)
(***************************************************************************)
Min(a, b) == IF a <= b THEN a ELSE b
Abs(x) == IF x < 0 THEN 0 - x ELSE x
Range(s) == {s[k] : k \in 1 .. Len(s)}
CeilDiv(a, b) == (a + b - 1) \div b

RECURSIVE SumDest(_, _)
\* sum([p['destination'] for p in s])
SumDest(tab, s) ==
    IF s = <<>> THEN 0 ELSE tab[Head(s)].destination + SumDest(tab, Tail(s))

RECURSIVE ISqrtIter(_, _, _)
\* largest r in lo..hi-1 with r*r <= x (lo*lo <= x < hi*hi)
ISqrtIter(x, lo, hi) ==
    IF hi - lo <= 1 THEN lo
    ELSE LET mid == (lo + hi) \div 2
         IN  IF mid <= x \div mid THEN ISqrtIter(x, mid, hi)
             ELSE ISqrtIter(x, lo, mid)

ISqrt(x) == IF x = 0 THEN 0 ELSE ISqrtIter(x, 1, x + 1)

\* sorted(seq, key): Python's sort is stable, so the element at position k of
\* the result is the one preceded by exactly k-1 elements, counting those
\* with a smaller key and those with an equal key that come earlier in seq.
StableSort(s, key(_)) ==
    LET n == Len(s)
        rank(k) == Cardinality({j \in 1 .. n :
                        \/ key(s[j]) < key(s[k])
                        \/ key(s[j]) = key(s[k]) /\ j < k})
    IN  [r \in 1 .. n |-> s[CHOOSE k \in 1 .. n : rank(k) = r - 1]]

\* range(self.number_of_lifts): the indices of self.lifts
LiftIds == DOMAIN lifts
number_of_lifts == Cardinality(LiftIds)
\* self.lifts as a list, in construction order
LiftList == [k \in 1 .. number_of_lifts |-> k - 1]

(***************************************************************************)
(* Kinematic model.  A time is [t |-> floor(Scale * seconds), exact |-> .] *)
(***************************************************************************)
\* Lift.travel_time(n), n >= 0.  smv = vmax^2/(2 acc), tmv = vmax/acc, so
\* dist > 2 smv iff dist*acc > vmax^2; the first branch is a rational that
\* Scale represents exactly for the constants above, the second is a square
\* root, exact iff its radicand is a perfect square.
travel_time(n) ==
    LET dist == floor_height * n
    IN  IF dist * acc > vmax * vmax
        THEN [t |-> (2 * vmax * Scale) \div acc
                    + ((dist * acc - vmax * vmax) * Scale) \div (acc * vmax)
                    + 2 * door_time * Scale,
              exact |-> TRUE]
        ELSE LET x == (4 * dist * Scale * Scale) \div acc
                 r == ISqrt(x)
             IN  [t |-> 2 * door_time * Scale + r, exact |-> (r * r = x)]

\* math.ceil(clock + rtt) for an integer clock: an exact rtt is rounded up; an
\* inexact one is irrational and lies strictly above its rounded-down value
\* (for every trip of up to 5 stops on floors 0..12 this agrees with the
\* double-precision result of the code).
CeilTime(c, time) ==
    IF time.exact THEN CeilDiv(c * Scale + time.t, Scale)
    ELSE (c * Scale + time.t) \div Scale + 1

NoTime == [t |-> None, exact |-> TRUE]
ZeroTime == [t |-> 0, exact |-> TRUE]
AddTime(a, b) == [t |-> a.t + b.t, exact |-> a.exact /\ b.exact]

(***************************************************************************)
(* Lift.  The operations take and return the part of the state they can    *)
(* touch: w = [lifts, P, W, departs, returns].                             *)
(***************************************************************************)
\* Lift.__init__ (lines 22-27 and 37)
NewLift(cap, ct) ==
    [capacity |-> cap, capacity_threshold |-> ct, available |-> TRUE,
     arrival_time |-> 0, passengers |-> <<>>, rtt |-> NoTime, queue |-> <<>>]

\* passenger[key] = val
Stamp(w, p, key, val) ==
    [w EXCEPT !.P[p][key] = val, !.W[p][key] = @ + 1]

RECURSIVE StampAll(_, _, _, _)
\* for p in ps: p[key] = val
StampAll(w, ps, key, val) ==
    IF ps = <<>> THEN w
    ELSE StampAll(Stamp(w, Head(ps), key, val), Tail(ps), key, val)

\* Lift.set_capacity_threshold: [w |-> state after, err |-> exception raised].
\* "ct is not float" compares the argument with the type object float by
\* identity: it is false for that object alone, and then "ct >= 0" raises
\* TypeError, a type and an int being unordered.
set_capacity_threshold(w, i, ct) ==
    IF ct.type # "type" THEN [w |-> w, err |-> "TypeError"]
    ELSE IF ct.type # "float" THEN [w |-> w, err |-> "TypeError"]
    ELSE IF ct.val[1] >= 0 /\ ct.val[1] <= ct.val[2]
    THEN [w |-> [w EXCEPT !.lifts[i].capacity_threshold = ct.val], err |-> "none"]
    ELSE [w |-> w, err |-> "ValueError"]

get_queue_length(w, i) == Len(w.lifts[i].queue)
get_total_passengers(w, i) == Len(w.lifts[i].passengers)
get_arrival_time(w, i) == w.lifts[i].arrival_time
is_available(w, i) == w.lifts[i].available

\* get_avg_floor averaging the first rem entries instead of the last
get_avg_floor_head(w, i) ==
    LET running_order == w.lifts[i].passengers \o w.lifts[i].queue
        total == Len(running_order)
        cap == w.lifts[i].capacity
    IN  IF total = 0 THEN <<0, 1>>
        ELSE IF total < cap THEN <<SumDest(w.P, running_order), total>>
        ELSE LET rem == total % cap
             IN  IF rem = 0 THEN <<0, 1>>
                 ELSE LET relevant_ps == SubSeq(running_order, 1, rem)
                      IN  <<SumDest(w.P, relevant_ps), Len(relevant_ps)>>

\* Lift.get_avg_floor: the mean as a fraction <<sum, count>>, 0 as <<0, 1>>
get_avg_floor(w, i) ==
    LET running_order == w.lifts[i].passengers \o w.lifts[i].queue
        total == Len(running_order)
        cap == w.lifts[i].capacity
    IN  IF total = 0 THEN <<0, 1>>
        ELSE IF total < cap THEN <<SumDest(w.P, running_order), total>>
        ELSE LET rem == total % cap
             IN  IF rem = 0 THEN <<0, 1>>
                 ELSE LET relevant_ps ==
                              SubSeq(running_order, total - rem + 1, total)
                      IN  <<SumDest(w.P, relevant_ps), Len(relevant_ps)>>

\* queue_passenger that puts the passenger at the front of the queue
queue_passenger_front(w, i, p, clk) ==
    LET w1 == Stamp(w, p, "time_lobby", clk)
        w2 == Stamp(w1, p, "lift_id", i)
    IN  [w2 EXCEPT !.lifts[i].queue = <<p>> \o @]

\* Lift.queue_passenger
queue_passenger(w, i, p, clk) ==
    LET w1 == Stamp(w, p, "time_lobby", clk)
        w2 == Stamp(w1, p, "lift_id", i)
    IN  [w2 EXCEPT !.lifts[i].queue = Append(@, p)]

\* Lift.add_passenger (the boolean it returns is ignored by its one caller)
add_passenger(w, i, p) ==
    IF Len(w.lifts[i].passengers) < w.lifts[i].capacity /\ w.lifts[i].available
    THEN [w EXCEPT !.lifts[i].passengers = Append(@, p)]
    ELSE w

RECURSIVE TripLoop(_, _, _, _)
\* the loop "for p in self.passengers" of update_trip_times and its return leg
TripLoop(w, ps, prev_n, time) ==
    IF ps = <<>> THEN [w |-> w, time |-> AddTime(time, travel_time(Abs(0 - prev_n)))]
    ELSE LET p == Head(ps)
             n == w.P[p].destination
             t1 == AddTime(time, travel_time(n - prev_n))
         IN  TripLoop(Stamp(w, p, "time_travelling", t1), Tail(ps), n, t1)

\* update_trip_times with an unstable sort: equal destinations are visited
\* in the reverse of the boarding order
update_trip_times_unstable(w, i, clk) ==
    LET ps == w.lifts[i].passengers
        pos(p) == CHOOSE k \in 1 .. Len(ps) : ps[k] = p
        sorted == StableSort(ps, LAMBDA p : w.P[p].destination * (Len(ps) + 1)
                                            + (Len(ps) - pos(p)))
        w1 == [w EXCEPT !.lifts[i].passengers = sorted]
    IN  TripLoop(w1, sorted, 0, ZeroTime)

\* Lift.update_trip_times: [w |-> state after, time |-> RTT]
update_trip_times(w, i, clk) ==
    LET sorted == StableSort(w.lifts[i].passengers,
                             LAMBDA p : w.P[p].destination)
        w1 == [w EXCEPT !.lifts[i].passengers = sorted]
    IN  TripLoop(w1, sorted, 0, ZeroTime)

\* depart that also stamps time.enter_lift on the boarded passengers
depart_restamp(w, i, clk) ==
    LET w1 == [w EXCEPT !.lifts[i].available = FALSE, !.departs[i] = @ + 1]
        w2 == StampAll(w1, w1.lifts[i].passengers, "time_enter_lift", clk)
        w3 == StampAll(w2, w2.lifts[i].passengers, "time_departure", clk)
        trip == update_trip_times(w3, i, clk)
    IN  [trip.w EXCEPT !.lifts[i].rtt = trip.time,
                       !.lifts[i].arrival_time = CeilTime(clk, trip.time)]

\* depart scheduling the return at ceil(rtt), without the clock
depart_noclock(w, i, clk) ==
    LET w1 == [w EXCEPT !.lifts[i].available = FALSE, !.departs[i] = @ + 1]
        w2 == StampAll(w1, w1.lifts[i].passengers, "time_departure", clk)
        trip == update_trip_times(w2, i, clk)
    IN  [trip.w EXCEPT !.lifts[i].rtt = trip.time,
                       !.lifts[i].arrival_time = CeilTime(0, trip.time)]

\* Lift.depart
depart(w, i, clk) ==
    LET w1 == [w EXCEPT !.lifts[i].available = FALSE, !.departs[i] = @ + 1]
        w2 == StampAll(w1, w1.lifts[i].passengers, "time_departure", clk)
        trip == update_trip_times(w2, i, clk)
    IN  [trip.w EXCEPT !.lifts[i].rtt = trip.time,
                       !.lifts[i].arrival_time = CeilTime(clk, trip.time)]

\* the time.enter_lift of the passenger boarded first instead of last
RecentEnter_oldest(w, i) ==
    LET ps == w.lifts[i].passengers
    IN  CHOOSE e \in {w.P[p].time_enter_lift : p \in Range(ps)} :
            \A p \in Range(ps) : w.P[p].time_enter_lift >= e

\* max(self.passengers, key=enter_lift)['time.enter_lift']
RecentEnter(w, i) ==
    LET ps == w.lifts[i].passengers
    IN  CHOOSE e \in {w.P[p].time_enter_lift : p \in Range(ps)} :
            \A p \in Range(ps) : w.P[p].time_enter_lift <= e

\* the tail of check_departure without the waiting timeout
CheckDepartureTail_notimeout(w, i, clk) ==
    LET l == w.lifts[i]
    IN  IF Len(l.passengers) * l.capacity_threshold[2]
               >= l.capacity_threshold[1] * l.capacity
        THEN depart(w, i, clk)
        ELSE w

\* the tail of check_departure with "len(self.passengers) > threshold"
CheckDepartureTail_strict(w, i, clk) ==
    LET l == w.lifts[i]
    IN  IF Len(l.passengers) * l.capacity_threshold[2]
               > l.capacity_threshold[1] * l.capacity
        THEN depart(w, i, clk)
        ELSE IF Len(l.passengers) > 0 /\ clk - RecentEnter(w, i) > WaitLimit
        THEN depart(w, i, clk)
        ELSE w

\* Lift.check_departure, from its second "if" on
CheckDepartureTail(w, i, clk) ==
    LET l == w.lifts[i]
    IN  IF Len(l.passengers) * l.capacity_threshold[2]
               >= l.capacity_threshold[1] * l.capacity
        THEN depart(w, i, clk)
        ELSE IF Len(l.passengers) > 0 /\ clk - RecentEnter(w, i) > WaitLimit
        THEN depart(w, i, clk)
        ELSE w

\* check_departure boarding the queue head without the capacity test and
\* without the departure triggers
check_departure_nocap(w, i, clk) ==
    LET l == w.lifts[i]
    IN  IF Len(l.queue) > 0
        THEN LET passenger == Head(l.queue)
                 w1 == [w EXCEPT !.lifts[i].queue = Tail(@)]
                 w2 == Stamp(w1, passenger, "time_enter_lift", clk)
             IN  [w2 EXCEPT !.lifts[i].passengers = Append(@, passenger)]
        ELSE CheckDepartureTail(w, i, clk)

\* Lift.check_departure
check_departure(w, i, clk) ==
    LET l == w.lifts[i]
    IN  IF Len(l.queue) > 0
        THEN IF Len(l.passengers) < l.capacity
             THEN LET passenger == Head(l.queue)
                      w1 == [w EXCEPT !.lifts[i].queue = Tail(@)]
                      w2 == Stamp(w1, passenger, "time_enter_lift", clk)
                  IN  CheckDepartureTail(add_passenger(w2, i, passenger), i, clk)
             ELSE depart(w, i, clk)
        ELSE CheckDepartureTail(w, i, clk)

\* check_arrival testing "current_time >= self.arrival_time"
check_arrival_ge(w, i, current_time) ==
    IF current_time >= w.lifts[i].arrival_time
    THEN LET ps == w.lifts[i].passengers
             w1 == StampAll(w, ps, "time_arrival", current_time)
         IN  [w |-> [w1 EXCEPT !.lifts[i].passengers = <<>>,
                               !.lifts[i].available = TRUE,
                               !.returns[i] = @ + 1],
              completed |-> ps]
    ELSE [w |-> w, completed |-> <<>>]

\* check_arrival that forgets "self.passengers = []"
check_arrival_keep(w, i, current_time) ==
    IF current_time = w.lifts[i].arrival_time
    THEN LET ps == w.lifts[i].passengers
             w1 == StampAll(w, ps, "time_arrival", current_time)
         IN  [w |-> [w1 EXCEPT !.lifts[i].available = TRUE,
                               !.returns[i] = @ + 1],
              completed |-> ps]
    ELSE [w |-> w, completed |-> <<>>]

\* Lift.check_arrival: [w |-> state after, completed |-> the returned list]
check_arrival(w, i, current_time) ==
    IF current_time = w.lifts[i].arrival_time
    THEN LET ps == w.lifts[i].passengers
             w1 == StampAll(w, ps, "time_arrival", current_time)
         IN  [w |-> [w1 EXCEPT !.lifts[i].passengers = <<>>,
                               !.lifts[i].available = TRUE,
                               !.returns[i] = @ + 1],
              completed |-> ps]
    ELSE [w |-> w, completed |-> <<>>]

(***************************************************************************)
(* Assignment strategies.                                                  *)
(***************************************************************************)
\* assign_greedy with an unstable sort: the last of the shortest queues
assign_greedy_unstable(w, p, clk) ==
    LET lifts_by_queue_length ==
            StableSort(LiftList, LAMBDA i : get_queue_length(w, i) * number_of_lifts
                                            + (number_of_lifts - 1 - i))
    IN  queue_passenger(w, lifts_by_queue_length[1], p, clk)

\* Simulation.assign_greedy
assign_greedy(w, p, clk) ==
    LET lifts_by_queue_length ==
            StableSort(LiftList, LAMBDA i : get_queue_length(w, i))
    IN  queue_passenger(w, lifts_by_queue_length[1], p, clk)

\* Simulation.assign_nearest_lift
assign_nearest_lift(w, p, clk) ==
    LET lifts_by_proximity ==
            StableSort(LiftList, LAMBDA i : get_arrival_time(w, i))
        open == {k \in 1 .. number_of_lifts :
                    get_queue_length(w, lifts_by_proximity[k])
                        < w.lifts[lifts_by_proximity[k]].capacity}
    IN  IF open # {}
        THEN LET k == CHOOSE k \in open : \A j \in open : k <= j
             IN  queue_passenger(w, lifts_by_proximity[k], p, clk)
        ELSE assign_greedy(w, p, clk)

\* a/b < c/d for fractions with positive denominators
FracLess(x, y) == x[1] * y[2] < y[1] * x[2]
\* abs(avg - d) for a fraction avg and an integer d, as a fraction
FracDist(avg, d) == <<Abs(avg[1] - d * avg[2]), avg[2]>>

\* sorted(self.lifts, key=lambda lift: abs(lift.get_avg_floor() - destination))
SortByAvgFloor(w, d) ==
    LET key(i) == FracDist(get_avg_floor(w, i), d)
        rank(k) == Cardinality({j \in 1 .. number_of_lifts :
                        \/ FracLess(key(LiftList[j]), key(LiftList[k]))
                        \/ /\ ~FracLess(key(LiftList[k]), key(LiftList[j]))
                           /\ j < k})
    IN  [r \in 1 .. number_of_lifts |->
            LiftList[CHOOSE k \in 1 .. number_of_lifts : rank(k) = r - 1]]

\* assign_grouping without the fallback to the first empty lift
assign_grouping_best(w, p, clk) ==
    LET lbnaf == SortByAvgFloor(w, w.P[p].destination)
    IN  queue_passenger(w, lbnaf[1], p, clk)

\* Simulation.assign_grouping
assign_grouping(w, p, clk) ==
    LET empty_lifts == SelectSeq(LiftList, LAMBDA i : get_avg_floor(w, i)[1] = 0)
        lbnaf == SortByAvgFloor(w, w.P[p].destination)
    IN  IF Len(empty_lifts) > 0
        THEN IF FracLess(get_avg_floor(w, lbnaf[1]), <<GroupingFloor, 1>>)
             THEN queue_passenger(w, lbnaf[1], p, clk)
             ELSE queue_passenger(w, empty_lifts[1], p, clk)
        ELSE queue_passenger(w, lbnaf[1], p, clk)

\* Simulation.assign_random, r the value drawn by np.random.randint
assign_random(w, p, clk, r) == queue_passenger(w, r, p, clk)

\* self.assignment_func(waiting_passenger)
Assign(f, w, p, clk, r) ==
    CASE f = "greedy" -> assign_greedy(w, p, clk)
      [] f = "nearest" -> assign_nearest_lift(w, p, clk)
      [] f = "grouping" -> assign_grouping(w, p, clk)
      [] f = "random" -> assign_random(w, p, clk, r)

(***************************************************************************)
(* Simulation.step                                                         *)
(***************************************************************************)
RECURSIVE DueCount(_, _, _)
\* number of entries the "while len(self.traffic) > 0" loop moves to q
DueCount(tab, tr, clk) ==
    IF tr = <<>> THEN 0
    ELSE IF tab[Head(tr)].time_start > clk THEN 0
    ELSE 1 + DueCount(tab, Tail(tr), clk)

RECURSIVE AssignLoop(_, _, _, _, _, _)
\* "for _ in range(b)": k iterations left, rs the draws of assign_random;
\* [w |-> state after, q |-> queue after]
AssignLoop(f, w, qq, clk, k, rs) ==
    IF k = 0 \/ qq = <<>> THEN [w |-> w, q |-> qq]
    ELSE AssignLoop(f, Assign(f, w, Head(qq), clk, Head(rs)), Tail(qq), clk,
                    k - 1, Tail(rs))

RECURSIVE LiftLoop(_, _, _, _)
\* "for lift in self.lifts", from lift i on; [w, arrivals]
LiftLoop(w, arr, i, clk) ==
    IF i >= number_of_lifts THEN [w |-> w, arrivals |-> arr]
    ELSE IF is_available(w, i)
    THEN LiftLoop(check_departure(w, i, clk), arr, i + 1, clk)
    ELSE LET c == check_arrival(w, i, clk)
         IN  LiftLoop(c.w, arr \o c.completed, i + 1, clk)

\* the loop of run() without its "break"
LoopExit_nobreak(arr, clk) == ~(clk < iterations)

\* run(): the tests that end "while self.clock < self.iterations" after a step
LoopExit(arr, clk) == Len(arr) = total_traffic \/ ~(clk < iterations)

World == [lifts |-> lifts, P |-> P, W |-> W, departs |-> departs,
          returns |-> returns]

\* one call of step() from the loop of run(), with batch size b and the
\* draws rs of the random strategy, followed by the loop's exit tests
Step(b, rs) ==
    /\ pc = "running"
    /\ LET due == DueCount(P, traffic, clock)
           q1 == q \o SubSeq(traffic, 1, due)
           a == AssignLoop(assignment_func, World, q1, clock, b, rs)
           l == LiftLoop(a.w, arrivals, 0, clock)
       IN  /\ traffic' = SubSeq(traffic, due + 1, Len(traffic))
           /\ q' = a.q
           /\ lifts' = l.w.lifts
           /\ P' = l.w.P
           /\ W' = l.w.W
           /\ departs' = l.w.departs
           /\ returns' = l.w.returns
           /\ arrivals' = l.arrivals
           /\ clock' = clock + 1
           /\ pc' = IF LoopExit(l.arrivals, clock + 1) THEN "done" ELSE "running"
    /\ UNCHANGED <<err, iterations, total_traffic, assignment_func, ret, call>>

\* number of passengers a step with batch size b hands to the strategy
Assigned(b) == Min(b, Len(q) + DueCount(P, traffic, clock))

\* the batch sizes of a randint(2, 5) that includes its upper end
Batches_inclusive ==
    {b \in MinBatch .. (MaxBatch + 1) : b = MinBatch \/ Assigned(b) = b}

\* the batch sizes np.random.randint(2, 5) can draw, one for each distinct
\* effect: b and b - 1 act alike when the queue runs dry before b - 1
Batches == {b \in MinBatch .. MaxBatch : b = MinBatch \/ Assigned(b) = b}

\* the draws of np.random.randint(0, number_of_lifts) a step makes
Draws(b) ==
    IF assignment_func = "random" THEN [1 .. Assigned(b) -> LiftIds]
    ELSE {[k \in 1 .. Assigned(b) |-> 0]}

StepAny ==
    /\ pc = "running"
    /\ \E b \in Batches : \E rs \in Draws(b) : Step(b, rs)

(***************************************************************************)
(* Set-up calls and run().                                                 *)
(***************************************************************************)
\* a traffic feed: passenger dicts with destination and time.start, sorted
\* by time.start
Feeds ==
    UNION {{t \in [1 .. n -> [destination : 0 .. MaxFloor, time_start : 0 .. MaxStart]] :
               \A k \in 1 .. (n - 1) : t[k].time_start <= t[k + 1].time_start}
           : n \in 0 .. MaxTraffic}

NewPassenger(d) ==
    [destination |-> d.destination, time_start |-> d.time_start,
     time_lobby |-> None, lift_id |-> None, time_enter_lift |-> None,
     time_departure |-> None, time_travelling |-> NoTime, time_arrival |-> None]

\* Simulation.set_traffic(t), called at most once before run()
SetTraffic(t) ==
    /\ pc = "setup"
    /\ traffic = <<None>>
    /\ total_traffic' = Len(t)
    /\ traffic' = [k \in 1 .. Len(t) |-> k]
    /\ P' = [k \in 1 .. Len(t) |-> NewPassenger(t[k])]
    /\ W' = [k \in 1 .. Len(t) |-> [f \in StampedFields |-> 0]]
    /\ err' = "none"
    /\ UNCHANGED <<pc, iterations, clock, assignment_func, q, lifts,
                   arrivals, departs, returns, ret, call>>

\* set_assignment_func that selects the named strategy before it validates
\* the name
SetAssignmentFunc_select(name) ==
    /\ pc = "setup"
    /\ assignment_func' = name
    /\ err' = IF name \in Names THEN "none" ELSE "ValueError"
    /\ UNCHANGED <<pc, iterations, clock, traffic, total_traffic, q, lifts,
                   arrivals, P, W, departs, returns, ret, call>>

\* Simulation.set_assignment_func(name)
SetAssignmentFunc(name) ==
    /\ pc = "setup"
    /\ IF name \in Names
       THEN assignment_func' = name /\ err' = "none"
       ELSE assignment_func' = assignment_func /\ err' = "ValueError"
    /\ UNCHANGED <<pc, iterations, clock, traffic, total_traffic, q, lifts,
                   arrivals, P, W, departs, returns, ret, call>>

\* Simulation.run() up to its first loop test
Run ==
    /\ pc = "setup"
    /\ IF traffic = <<None>> \/ assignment_func = "None"
       THEN pc' = pc /\ err' = "TypeError"
       ELSE /\ pc' = IF clock < iterations THEN "running" ELSE "done"
            /\ err' = "none"
    /\ UNCHANGED <<iterations, clock, traffic, total_traffic, assignment_func,
                   q, lifts, arrivals, P, W, departs, returns, ret, call>>

\* Simulation.__init__, with the lifts' capacity and threshold as parameters
Init ==
    /\ pc = "setup"
    /\ err = "none"
    /\ iterations = MaxIterations
    /\ clock = 0
    /\ traffic = <<None>>
    /\ total_traffic = None
    /\ assignment_func = "None"
    /\ q = <<>>
    /\ \E cap \in 1 .. MaxCapacity : \E ct \in Thresholds :
           lifts = [i \in 0 .. (NumLifts - 1) |-> NewLift(cap, ct)]
    /\ arrivals = <<>>
    /\ P = <<>>
    /\ W = <<>>
    /\ departs = [i \in 0 .. (NumLifts - 1) |-> 0]
    /\ returns = [i \in 0 .. (NumLifts - 1) |-> 0]
    /\ ret = <<0, 1>>
    /\ call = NoCall

Next ==
    \/ \E t \in Feeds : SetTraffic(t)
    \/ \E name \in Names \cup {"bogus"} : SetAssignmentFunc(name)
    \/ Run
    \/ StepAny

Spec == Init /\ [][Next]_vars

(***************************************************************************)
(* assign_greedy alone: a passenger at the head of q is handed to          *)
(* assign_greedy, for every combination of queue lengths of the lifts.     *)
(***************************************************************************)
RECURSIVE QueuedBefore(_, _)
\* number of passengers queued on the lifts 0..i-1
QueuedBefore(lens, i) == IF i = 0 THEN 0 ELSE lens[i - 1] + QueuedBefore(lens, i - 1)

\* the passengers waiting for the lifts were queued by queue_passenger at clock 0
InitGreedy ==
    \E lens \in [0 .. (GreedyLifts - 1) -> 0 .. MaxQueue] :
        LET n == QueuedBefore(lens, GreedyLifts)
            liftOf(k) == CHOOSE i \in 0 .. (GreedyLifts - 1) :
                             QueuedBefore(lens, i) < k /\ k <= QueuedBefore(lens, i + 1)
        IN  /\ lifts = [i \in 0 .. (GreedyLifts - 1) |->
                          [NewLift(MaxCapacity, <<1, 1>>) EXCEPT
                              !.queue = [k \in 1 .. lens[i] |-> QueuedBefore(lens, i) + k]]]
            /\ P = [k \in 1 .. (n + 1) |->
                      IF k <= n
                      THEN [NewPassenger([destination |-> 0, time_start |-> 0])
                               EXCEPT !.time_lobby = 0, !.lift_id = liftOf(k)]
                      ELSE NewPassenger([destination |-> 0, time_start |-> 1])]
            /\ W = [k \in 1 .. (n + 1) |->
                      [f \in StampedFields |->
                          IF k <= n /\ f \in {"time_lobby", "lift_id"} THEN 1 ELSE 0]]
            /\ total_traffic = n + 1
            /\ q = <<n + 1>>
    /\ pc = "assign"
    /\ err = "none"
    /\ iterations = MaxIterations
    /\ clock = 1
    /\ traffic = <<>>
    /\ assignment_func = "greedy"
    /\ arrivals = <<>>
    /\ departs = [i \in 0 .. (GreedyLifts - 1) |-> 0]
    /\ returns = [i \in 0 .. (GreedyLifts - 1) |-> 0]
    /\ ret = <<0, 1>>
    /\ call = NoCall

\* step(): "waiting_passenger = self.q.pop(0)" and the call of assign_greedy
AssignGreedyCall ==
    /\ pc = "assign"
    /\ q # <<>>
    /\ LET w == assign_greedy(World, Head(q), clock)
       IN  /\ lifts' = w.lifts
           /\ P' = w.P
           /\ W' = w.W
    /\ q' = Tail(q)
    /\ pc' = "assigned"
    /\ UNCHANGED <<err, iterations, clock, traffic, total_traffic, assignment_func,
                   arrivals, departs, returns, ret, call>>

NextGreedy == AssignGreedyCall

SpecGreedy == InitGreedy /\ [][NextGreedy]_vars

(***************************************************************************)
(* get_avg_floor alone: one lift, every capacity, every split of a batch   *)
(* of destinations into boarded and queued passengers.                     *)
(***************************************************************************)
InitAvg ==
    \E cap \in 1 .. AvgCapacity : \E n \in 0 .. AvgBatch :
    \E ds \in [1 .. n -> AvgDestinations] : \E k \in 0 .. Min(n, cap) :
        /\ lifts = [i \in {0} |->
                      [NewLift(cap, <<1, 1>>) EXCEPT
                          !.passengers = [j \in 1 .. k |-> j],
                          !.queue = [j \in 1 .. (n - k) |-> k + j]]]
        /\ P = [j \in 1 .. n |->
                  [NewPassenger([destination |-> ds[j], time_start |-> 0])
                      EXCEPT !.time_lobby = 0, !.lift_id = 0,
                             !.time_enter_lift = IF j <= k THEN 0 ELSE None]]
        /\ W = [j \in 1 .. n |->
                  [f \in StampedFields |->
                      IF f \in {"time_lobby", "lift_id"}
                         \/ (j <= k /\ f = "time_enter_lift") THEN 1 ELSE 0]]
        /\ total_traffic = n
    /\ pc = "avg"
    /\ err = "none"
    /\ iterations = MaxIterations
    /\ clock = 1
    /\ traffic = <<>>
    /\ q = <<>>
    /\ assignment_func = "grouping"
    /\ arrivals = <<>>
    /\ departs = [i \in {0} |-> 0]
    /\ returns = [i \in {0} |-> 0]
    /\ ret = <<0, 1>>
    /\ call = NoCall

\* a call of lift.get_avg_floor(), as assign_grouping makes it
GetAvgFloorCall ==
    /\ pc = "avg"
    /\ ret' = get_avg_floor(World, 0)
    /\ pc' = "avg_done"
    /\ UNCHANGED <<err, iterations, clock, traffic, total_traffic, assignment_func,
                   q, lifts, arrivals, P, W, departs, returns, call>>

NextAvg == GetAvgFloorCall

SpecAvg == InitAvg /\ [][NextAvg]_vars

(***************************************************************************)
(* A departure alone: one lift of capacity TripBatch and threshold 1.0     *)
(* whose passengers boarded one per tick from clock 0 on, for every list   *)
(* of destinations.  A full batch departs in the call that boards its last *)
(* passenger, a smaller one on the waiting timeout.                        *)
(***************************************************************************)
InitTrip ==
    \E n \in 1 .. TripBatch : \E ds \in [1 .. n -> TripDestinations] :
        LET k == IF n = TripBatch THEN n - 1 ELSE n
        IN  /\ lifts = [i \in {0} |->
                          [NewLift(TripBatch, <<1, 1>>) EXCEPT
                              !.passengers = [j \in 1 .. k |-> j],
                              !.queue = [j \in 1 .. (n - k) |-> k + j]]]
            /\ P = [j \in 1 .. n |->
                      [NewPassenger([destination |-> ds[j], time_start |-> 0])
                          EXCEPT !.time_lobby = 0, !.lift_id = 0,
                                 !.time_enter_lift = IF j <= k THEN j - 1 ELSE None]]
            /\ W = [j \in 1 .. n |->
                      [f \in StampedFields |->
                          IF f \in {"time_lobby", "lift_id"}
                             \/ (j <= k /\ f = "time_enter_lift") THEN 1 ELSE 0]]
            /\ total_traffic = n
            /\ clock = IF n = TripBatch THEN n - 1 ELSE n + WaitLimit
    /\ pc = "check"
    /\ err = "none"
    /\ iterations = MaxIterations
    /\ traffic = <<>>
    /\ q = <<>>
    /\ assignment_func = "greedy"
    /\ arrivals = <<>>
    /\ departs = [i \in {0} |-> 0]
    /\ returns = [i \in {0} |-> 0]
    /\ ret = <<0, 1>>
    /\ call = NoCall

\* step(): "lift.check_departure(self.clock)" on the lift, which departs
CheckDepartureCall ==
    /\ pc = "check"
    /\ LET w == check_departure(World, 0, clock)
       IN  /\ lifts' = w.lifts
           /\ P' = w.P
           /\ W' = w.W
           /\ departs' = w.departs
           /\ returns' = w.returns
    /\ pc' = "checked"
    /\ UNCHANGED <<err, iterations, clock, traffic, total_traffic, assignment_func,
                   q, arrivals, ret, call>>

NextTrip == CheckDepartureCall

SpecTrip == InitTrip /\ [][NextTrip]_vars

(***************************************************************************)
(* The waiting timeout alone: one lift of capacity WaitCapacity and         *)
(* threshold 1.0, its queue empty, holding fewer passengers than its        *)
(* capacity.  The first boarded at clock 0; each later one boarded while    *)
(* the lift was still waiting, that is at most WaitLimit + 1 ticks after    *)
(* the one before, and the lift has been checked at every tick since.       *)
(***************************************************************************)
RECURSIVE SumGaps(_, _)
\* gaps[1] + ... + gaps[k]
SumGaps(gaps, k) == IF k = 0 THEN 0 ELSE gaps[k] + SumGaps(gaps, k - 1)

InitWait ==
    \E n \in 1 .. (WaitCapacity - 1) : \E gaps \in [1 .. n -> 1 .. (WaitLimit + 1)] :
        /\ lifts = [i \in {0} |->
                      [NewLift(WaitCapacity, <<1, 1>>) EXCEPT
                          !.passengers = [j \in 1 .. n |-> j]]]
        /\ P = [j \in 1 .. n |->
                  [NewPassenger([destination |-> 1, time_start |-> 0])
                      EXCEPT !.time_lobby = SumGaps(gaps, j - 1), !.lift_id = 0,
                             !.time_enter_lift = SumGaps(gaps, j - 1)]]
        /\ W = [j \in 1 .. n |->
                  [f \in StampedFields |->
                      IF f \in {"time_lobby", "lift_id", "time_enter_lift"}
                      THEN 1 ELSE 0]]
        /\ total_traffic = n
        /\ clock = SumGaps(gaps, n)
    /\ pc = "check"
    /\ err = "none"
    /\ iterations = MaxIterations
    /\ traffic = <<>>
    /\ q = <<>>
    /\ assignment_func = "greedy"
    /\ arrivals = <<>>
    /\ departs = [i \in {0} |-> 0]
    /\ returns = [i \in {0} |-> 0]
    /\ ret = <<0, 1>>
    /\ call = NoCall

NextWait == CheckDepartureCall

SpecWait == InitWait /\ [][NextWait]_vars

(***************************************************************************)
(* Crowded runs: run() has just entered its loop with a feed of up to      *)
(* AdmitTraffic passengers for floor 1 that reach the building at ticks    *)
(* 0..MaxStart, so that more passengers wait in q than one step assigns.   *)
(***************************************************************************)
InitAdmit ==
    \E n \in 0 .. AdmitTraffic : \E starts \in [1 .. n -> 0 .. MaxStart] :
        /\ \A k \in 1 .. (n - 1) : starts[k] <= starts[k + 1]
        /\ traffic = [k \in 1 .. n |-> k]
        /\ total_traffic = n
        /\ P = [k \in 1 .. n |->
                  NewPassenger([destination |-> 1, time_start |-> starts[k]])]
        /\ W = [k \in 1 .. n |-> [f \in StampedFields |-> 0]]
    /\ pc = "running"
    /\ err = "none"
    /\ iterations = AdmitIterations
    /\ clock = 0
    /\ assignment_func \in Names
    /\ q = <<>>
    /\ lifts = [i \in 0 .. (NumLifts - 1) |-> NewLift(MaxCapacity, <<1, 1>>)]
    /\ arrivals = <<>>
    /\ departs = [i \in 0 .. (NumLifts - 1) |-> 0]
    /\ returns = [i \in 0 .. (NumLifts - 1) |-> 0]
    /\ ret = <<0, 1>>
    /\ call = NoCall

NextAdmit == StepAny

SpecAdmit == InitAdmit /\ [][NextAdmit]_vars

(***************************************************************************)
(* assign_grouping alone: a passenger at the head of q is handed to        *)
(* assign_grouping, for every combination of batches queued on the lifts   *)
(* by queue_passenger at clock 0.                                          *)
(***************************************************************************)
InitGrouping ==
    \E cap \in 1 .. GroupCapacity : \E d \in GroupDestinations :
    \E batch \in [0 .. (GroupLifts - 1) -> GroupBatches] :
        LET lens == [i \in 0 .. (GroupLifts - 1) |-> Len(batch[i])]
            n == QueuedBefore(lens, GroupLifts)
            liftOf(k) == CHOOSE i \in 0 .. (GroupLifts - 1) :
                             QueuedBefore(lens, i) < k /\ k <= QueuedBefore(lens, i + 1)
        IN  /\ lifts = [i \in 0 .. (GroupLifts - 1) |->
                          [NewLift(cap, <<1, 1>>) EXCEPT
                              !.queue = [k \in 1 .. lens[i] |-> QueuedBefore(lens, i) + k]]]
            /\ P = [k \in 1 .. (n + 1) |->
                      IF k <= n
                      THEN [NewPassenger([destination |->
                                              batch[liftOf(k)][k - QueuedBefore(lens, liftOf(k))],
                                          time_start |-> 0])
                               EXCEPT !.time_lobby = 0, !.lift_id = liftOf(k)]
                      ELSE NewPassenger([destination |-> d, time_start |-> 1])]
            /\ W = [k \in 1 .. (n + 1) |->
                      [f \in StampedFields |->
                          IF k <= n /\ f \in {"time_lobby", "lift_id"} THEN 1 ELSE 0]]
            /\ total_traffic = n + 1
            /\ q = <<n + 1>>
    /\ pc = "assign"
    /\ err = "none"
    /\ iterations = MaxIterations
    /\ clock = 1
    /\ traffic = <<>>
    /\ assignment_func = "grouping"
    /\ arrivals = <<>>
    /\ departs = [i \in 0 .. (GroupLifts - 1) |-> 0]
    /\ returns = [i \in 0 .. (GroupLifts - 1) |-> 0]
    /\ ret = <<0, 1>>
    /\ call = NoCall

\* step(): "waiting_passenger = self.q.pop(0)" and the call of assign_grouping
AssignGroupingCall ==
    /\ pc = "assign"
    /\ q # <<>>
    /\ LET w == assign_grouping(World, Head(q), clock)
       IN  /\ lifts' = w.lifts
           /\ P' = w.P
           /\ W' = w.W
    /\ q' = Tail(q)
    /\ pc' = "assigned"
    /\ UNCHANGED <<err, iterations, clock, traffic, total_traffic, assignment_func,
                   arrivals, departs, returns, ret, call>>

NextGrouping == AssignGroupingCall

SpecGrouping == InitGrouping /\ [][NextGrouping]_vars

(***************************************************************************)
(* set_capacity_threshold alone: one call on a lift of a simulation that   *)
(* has just been built, for every argument of CtArguments.                 *)
(***************************************************************************)
InitThreshold ==
    /\ pc = "set"
    /\ err = "none"
    /\ iterations = MaxIterations
    /\ clock = 0
    /\ traffic = <<None>>
    /\ total_traffic = None
    /\ assignment_func = "None"
    /\ q = <<>>
    /\ \E cap \in 1 .. MaxCapacity : \E ct \in Thresholds :
           lifts = [i \in 0 .. (NumLifts - 1) |-> NewLift(cap, ct)]
    /\ arrivals = <<>>
    /\ P = <<>>
    /\ W = <<>>
    /\ departs = [i \in 0 .. (NumLifts - 1) |-> 0]
    /\ returns = [i \in 0 .. (NumLifts - 1) |-> 0]
    /\ ret = <<0, 1>>
    /\ \E i \in 0 .. (NumLifts - 1) : \E ct \in CtArguments :
           call = [lift |-> i, ct |-> ct]

\* sim.lifts[call.lift].set_capacity_threshold(call.ct)
SetCapacityThresholdCall ==
    /\ pc = "set"
    /\ LET r == set_capacity_threshold(World, call.lift, call.ct)
       IN  /\ lifts' = r.w.lifts
           /\ err' = r.err
    /\ pc' = "set_done"
    /\ UNCHANGED <<iterations, clock, traffic, total_traffic, assignment_func,
                   q, arrivals, P, W, departs, returns, ret, call>>

NextThreshold == SetCapacityThresholdCall

SpecThreshold == InitThreshold /\ [][NextThreshold]_vars

(***************************************************************************)
(* Runs to delivery: step() is called again and again on a simulation      *)
(* whose feed holds destinations 1..MaxFloor only and whose lifts have a   *)
(* threshold above 0.  The loop of run() supplies the calls; its cap is    *)
(* LiveHorizon, beyond the tick at which the last passenger is back, and   *)
(* the step is taken whenever it can be (weak fairness).                   *)
(***************************************************************************)
\* ticks the runs are followed for: every passenger is back sooner, were
\* each to wait out the timeout and to travel alone to the top floor
LiveHorizon ==
    MaxStart + MaxTraffic * (WaitLimit + 2
                             + 2 * CeilTime(0, travel_time(MaxFloor)))

InitLive ==
    \E n \in 0 .. MaxTraffic :
    \E t \in [1 .. n -> [destination : 1 .. MaxFloor, time_start : 0 .. MaxStart]] :
        /\ \A k \in 1 .. (n - 1) : t[k].time_start <= t[k + 1].time_start
        /\ traffic = [k \in 1 .. n |-> k]
        /\ total_traffic = n
        /\ P = [k \in 1 .. n |-> NewPassenger(t[k])]
        /\ W = [k \in 1 .. n |-> [f \in StampedFields |-> 0]]
    /\ pc = "running"
    /\ err = "none"
    /\ iterations = LiveHorizon
    /\ clock = 0
    /\ assignment_func \in Names
    /\ q = <<>>
    /\ \E cap \in 1 .. MaxCapacity : \E ct \in {c \in Thresholds : c[1] > 0} :
           lifts = [i \in 0 .. (NumLifts - 1) |-> NewLift(cap, ct)]
    /\ arrivals = <<>>
    /\ departs = [i \in 0 .. (NumLifts - 1) |-> 0]
    /\ returns = [i \in 0 .. (NumLifts - 1) |-> 0]
    /\ ret = <<0, 1>>
    /\ call = NoCall

NextLive == StepAny

\* a turn of "while self.clock < self.iterations": the loop is at its test
\* and the step it calls advances the clock.  Of the steps of NextLive these
\* are the steps of StepAny, which can be taken whenever pc = "running".
LoopTurn == pc = "running" /\ clock' = clock + 1

\* run() is a sequential loop: while it is at its test, its next step is taken
SpecLive == InitLive /\ [][NextLive]_vars /\ WF_clock(LoopTurn)

(***************************************************************************)
(* Properties.                                                             *)
(***************************************************************************)
Pids == 1 .. total_traffic
Loaded == traffic # <<None>>
Count(p, s) == Cardinality({k \in 1 .. Len(s) : s[k] = p})

\* the places that hold passenger p: each is a list and a position in it
Places(p) ==
    {<<"traffic", 0, k>> : k \in {k \in 1 .. Len(traffic) : traffic[k] = p}}
    \cup {<<"q", 0, k>> : k \in {k \in 1 .. Len(q) : q[k] = p}}
    \cup {<<"arrivals", 0, k>> : k \in {k \in 1 .. Len(arrivals) : arrivals[k] = p}}
    \cup UNION {{<<"queue", i, k>> :
                    k \in {k \in 1 .. Len(lifts[i].queue) : lifts[i].queue[k] = p}}
                : i \in LiftIds}
    \cup UNION {{<<"boarded", i, k>> :
                    k \in {k \in 1 .. Len(lifts[i].passengers) :
                              lifts[i].passengers[k] = p}}
                : i \in LiftIds}

\* C1: at the end of every step every passenger of the feed is in exactly one
\* place among the remaining traffic, q, a lift's queue, a lift's boarded
\* list and the arrivals, and len(arrivals) <= total_traffic.
C1_Conservation ==
    Loaded =>
        /\ \A p \in Pids : Cardinality(Places(p)) = 1
        /\ Len(arrivals) <= total_traffic

\* passengers spread over arrivals, a boarded list and a lift queue at once
C1_Witness ==
    /\ Loaded /\ total_traffic = MaxTraffic /\ Len(arrivals) >= 1
    /\ \E i \in LiftIds : Len(lifts[i].passengers) >= 1
    /\ \E i \in LiftIds : Len(lifts[i].queue) >= 1

\* C2: in every reachable state every lift holds at most capacity boarded
\* passengers.
C2_CapacityBound ==
    \A i \in LiftIds : Len(lifts[i].passengers) <= lifts[i].capacity

\* a lift filled to a capacity above 1 while another passenger waits for it
C2_Witness ==
    \E i \in LiftIds :
        /\ lifts[i].capacity > 1
        /\ Len(lifts[i].passengers) = lifts[i].capacity
        /\ Len(lifts[i].queue) >= 1

Stepped == clock' = clock + 1
InTransit(i) == ~lifts[i].available
IsPrefix(s, t) == Len(s) <= Len(t) /\ SubSeq(t, 1, Len(s)) = s

\* C3: a lift that has departed with passengers on board still has its
\* arrival ahead of it: the step whose clock equals arrival_time is yet to come
\* (so check_arrival cannot miss it), and it never returns more often than it
\* departed.
C3_ArrivalNeverMissed ==
    \A i \in LiftIds :
        /\ returns[i] <= departs[i]
        /\ (InTransit(i) /\ lifts[i].passengers # <<>>)
               => lifts[i].arrival_time >= clock

RECURSIVE ArrivedFrom(_)
\* the boarded lists of the lifts i.. that are due back at the current clock
ArrivedFrom(i) ==
    IF i >= number_of_lifts THEN <<>>
    ELSE (IF InTransit(i) /\ lifts[i].arrival_time = clock
          THEN lifts[i].passengers ELSE <<>>) \o ArrivedFrom(i + 1)

\* C4: available is false exactly between depart and the matching
\* check_arrival; a step leaves an in-transit lift as it is (only its queue may
\* grow) when the clock differs from arrival_time, and otherwise hands the
\* boarded list to the arrivals, empties it and makes the lift available.
C4_Step ==
    /\ \A i \in LiftIds :
           /\ lifts'[i].available <=> (departs'[i] = returns'[i])
           /\ departs'[i] - returns'[i] \in {0, 1}
           /\ (Stepped /\ InTransit(i)) =>
                  /\ IsPrefix(lifts[i].queue, lifts'[i].queue)
                  /\ departs'[i] = departs[i]
                  /\ lifts'[i].arrival_time = lifts[i].arrival_time
                  /\ IF clock = lifts[i].arrival_time
                     THEN /\ lifts'[i].passengers = <<>>
                          /\ lifts'[i].available
                          /\ returns'[i] = returns[i] + 1
                     ELSE /\ lifts'[i].passengers = lifts[i].passengers
                          /\ ~lifts'[i].available
                          /\ returns'[i] = returns[i]
    /\ Stepped => arrivals' = arrivals \o ArrivedFrom(0)

C4_InTransitFrozen == [][C4_Step]_vars

\* a lift back from one trip and out on the next, with a passenger waiting
C4_Witness ==
    \E i \in LiftIds :
        /\ returns[i] >= 1 /\ InTransit(i)
        /\ lifts[i].passengers # <<>> /\ lifts[i].queue # <<>>

\* C5: arrival_time changes only in a depart of an available lift, which
\* sets it to clock + ceil(RTT), not before the clock.
C5_Step ==
    \A i \in LiftIds :
        IF departs'[i] # departs[i]
        THEN /\ departs'[i] = departs[i] + 1
             /\ Stepped
             /\ ~lifts'[i].available
             /\ returns[i] = departs[i]
             /\ lifts'[i].arrival_time = clock + CeilTime(0, lifts'[i].rtt)
             /\ lifts'[i].arrival_time >= clock
        ELSE /\ lifts'[i].arrival_time = lifts[i].arrival_time
             /\ lifts'[i].rtt = lifts[i].rtt

C5_ArrivalSchedule == [][C5_Step]_vars

\* a lift on its second trip, with a round-trip time that is not a whole
\* number of ticks
C5_Witness ==
    \E i \in LiftIds :
        /\ departs[i] = 2 /\ InTransit(i)
        /\ ~lifts[i].rtt.exact /\ lifts[i].passengers # <<>>

\* ceil of the round-trip time of a lift carrying one passenger to floor d
CeilRoundTrip(d) == CeilTime(0, AddTime(travel_time(d), travel_time(d)))

\* passenger p is handed in this step to lift i, which stood available with
\* nobody on board and nobody waiting, and no passenger before p is
C6_FirstOn(p, i) ==
    /\ Stepped
    /\ lifts[i].available /\ lifts[i].passengers = <<>> /\ lifts[i].queue = <<>>
    /\ W[p].lift_id = 0 /\ W'[p].lift_id = 1 /\ P'[p].lift_id = i
    /\ \A r \in Pids : (W[r].lift_id = 0 /\ W'[r].lift_id = 1 /\ P'[r].lift_id = i)
                           => p <= r

C6_Step ==
    Loaded =>
    \A i \in LiftIds : \A p \in Pids :
        (lifts[i].capacity = 1 /\ lifts[i].capacity_threshold = <<1, 1>>
         /\ C6_FirstOn(p, i)) =>
            /\ P'[p].time_lobby = clock
            /\ P'[p].time_enter_lift = clock
            /\ P'[p].time_departure = clock
            /\ ~lifts'[i].available
            /\ lifts'[i].arrival_time = clock + CeilRoundTrip(P[p].destination)

\* a passenger that left in a lift of capacity 1 and threshold 1.0 is in the
\* arrivals from the step whose clock is departure + ceil(RTT) on, stamped
\* with that clock, and not before
C6_Arrives ==
    Loaded =>
    \A p \in Pids :
        (/\ W[p].time_departure = 1
         /\ lifts[P[p].lift_id].capacity = 1
         /\ lifts[P[p].lift_id].capacity_threshold = <<1, 1>>) =>
            LET a == P[p].time_departure + CeilRoundTrip(P[p].destination)
            IN  /\ (p \in Range(arrivals)) <=> (clock > a)
                /\ (p \in Range(arrivals)) => P[p].time_arrival = a

\* C6: with capacity 1 and threshold 1.0, the passenger handed to an empty
\* available lift at clock c is queued, boarded and departed at c, the lift is
\* due back at c + ceil(RTT), and the passenger joins the arrivals in exactly
\* the step with that clock.
C6_EndToEnd == [][C6_Step]_vars /\ []C6_Arrives

\* C7: destination and time.start never change; each stamped key is written
\* at most once and keeps its value; the stamps come in the order queue,
\* board, depart, arrive, so that start <= lobby <= enter_lift <= departure
\* <= arrival for every passenger in the arrivals.
C7_Order ==
    Loaded =>
    \A p \in Pids :
        /\ \A f \in StampedFields : W[p][f] <= 1
        /\ W[p].lift_id = W[p].time_lobby
        /\ W[p].time_enter_lift <= W[p].time_lobby
        /\ W[p].time_departure <= W[p].time_enter_lift
        /\ W[p].time_travelling = W[p].time_departure
        /\ W[p].time_arrival <= W[p].time_departure
        /\ W[p].time_lobby = 1 => P[p].time_start <= P[p].time_lobby
        /\ W[p].time_enter_lift = 1 => P[p].time_lobby <= P[p].time_enter_lift
        /\ W[p].time_departure = 1 => P[p].time_enter_lift <= P[p].time_departure
        /\ W[p].time_arrival = 1 => P[p].time_departure <= P[p].time_arrival
        /\ (p \in Range(arrivals)) => \A f \in StampedFields : W[p][f] = 1

C7_Step ==
    Loaded =>
    \A p \in Pids :
        /\ P'[p].destination = P[p].destination
        /\ P'[p].time_start = P[p].time_start
        /\ \A f \in StampedFields :
               /\ W'[p][f] >= W[p][f]
               /\ W[p][f] = 1 => P'[p][f] = P[p][f]
               /\ W'[p][f] = W[p][f] => P'[p][f] = P[p][f]

C7_WriteOnce == []C7_Order /\ [][C7_Step]_vars

\* a passenger that waited in q, waited on board and then travelled, and one
\* that waited in a lift's queue, both arrived
C7_Witness ==
    /\ Loaded
    /\ \E p \in Range(arrivals) :
           /\ P[p].time_start < P[p].time_lobby
           /\ P[p].time_enter_lift < P[p].time_departure
           /\ P[p].time_departure < P[p].time_arrival
    /\ \E p \in Range(arrivals) : P[p].time_lobby < P[p].time_enter_lift

\* the parts of C8 that hold as stated: the clock moves by one step at a time
\* and stays within the cap, a step ends the run exactly when the clock has
\* reached the cap or everybody has arrived, and a finished run steps no more
C8_Common ==
    /\ clock' \in {clock, clock + 1}
    /\ clock' <= iterations
    /\ Stepped => (pc = "running" /\ clock < iterations)
    /\ Stepped => (pc' = "done" <=>
                      (clock' = iterations \/ Len(arrivals') = total_traffic))
    /\ pc = "done" => (pc' = "done" /\ ~Stepped)

\* C8 as stated: moreover no step is executed once every passenger of the
\* traffic has arrived.
C8_Original ==
    [][C8_Common /\ (Stepped => Len(arrivals) # total_traffic)]_vars

\* C8 as amended: no step is executed after a step that ended with every
\* passenger arrived; only the first step of a run on an empty feed starts
\* with len(arrivals) = total_traffic.
C8_RunTerminates ==
    [][/\ C8_Common
       /\ Stepped => \/ Len(arrivals) # total_traffic
                     \/ total_traffic = 0 /\ clock = 0 /\ pc' = "done"]_vars

\* a run that ended before the cap because all of a full feed arrived
C8_Witness ==
    /\ pc = "done" /\ clock < iterations
    /\ total_traffic = MaxTraffic /\ Len(arrivals) = total_traffic

QueueLengths == [k \in 1 .. number_of_lifts |-> Len(lifts[k - 1].queue)]

\* C9: assign_greedy appends the passenger to the queue of the lowest-index
\* lift among those with the shortest queue, and leaves every other lift as
\* it is.
C9_Step ==
    (pc = "assign" /\ pc' = "assigned") =>
        LET p == Head(q)
            best == CHOOSE i \in LiftIds :
                        /\ \A j \in LiftIds : Len(lifts[i].queue) <= Len(lifts[j].queue)
                        /\ \A j \in LiftIds :
                               Len(lifts[j].queue) = Len(lifts[i].queue) => i <= j
        IN  /\ lifts'[best].queue = Append(lifts[best].queue, p)
            /\ P'[p].lift_id = best
            /\ \A j \in LiftIds \ {best} : lifts'[j] = lifts[j]

C9_Greedy == [][C9_Step]_vars

\* queue lengths [3,1,4,1]: the passenger went to the lift of index 1
C9_Witness ==
    /\ pc = "assigned"
    /\ QueueLengths = <<3, 2, 4, 1>>
    /\ P[total_traffic].lift_id = 1
    /\ lifts[1].queue[2] = total_traffic

RECURSIVE SumFrom(_, _, _)
\* sum of the destinations of the entries lo..hi of a batch
SumFrom(batch, lo, hi) ==
    IF lo > hi THEN 0 ELSE P[batch[lo]].destination + SumFrom(batch, lo + 1, hi)

\* C10: get_avg_floor returns 0 for an empty batch, the mean of all
\* destinations when total < capacity, and for total >= capacity 0 when
\* total mod capacity is 0 and else the mean of the last total mod capacity
\* destinations.
C10_Value ==
    pc = "avg_done" =>
        LET batch == lifts[0].passengers \o lifts[0].queue
            total == Len(batch)
            cap == lifts[0].capacity
            m == total % cap
        IN  /\ ret[2] > 0
            /\ total = 0 => ret[1] = 0
            /\ (0 < total /\ total < cap) =>
                   ret[1] * total = SumFrom(batch, 1, total) * ret[2]
            /\ (total >= cap /\ m = 0) => ret[1] = 0
            /\ (total >= cap /\ m # 0) =>
                   ret[1] * m = SumFrom(batch, total - m + 1, total) * ret[2]

\* the call changes no lift and no passenger
C10_Frame == (pc = "avg" /\ pc' = "avg_done") => (lifts' = lifts /\ P' = P /\ q' = q)

C10_AvgFloor == []C10_Value /\ [][C10_Frame]_vars

\* capacity 4, destinations [3,3,3,3,7]: the result is 7
C10_Witness ==
    /\ pc = "avg_done"
    /\ lifts[0].capacity = 4
    /\ Len(lifts[0].passengers) = 4
    /\ [k \in 1 .. Len(lifts[0].passengers \o lifts[0].queue) |->
           P[(lifts[0].passengers \o lifts[0].queue)[k]].destination] = <<3, 3, 3, 3, 7>>
    /\ ret[1] = 7 * ret[2]

\* position of passenger p in the list s
PosIn(p, s) == CHOOSE k \in 1 .. Len(s) : s[k] = p

C11_Step ==
    pc = "check" /\ pc' = "checked" =>
        LET boarding == lifts[0].passengers \o lifts[0].queue
            visit == lifts'[0].passengers
            n == Len(visit)
        IN  /\ departs'[0] = 1
            /\ ~lifts'[0].available
            /\ n = Len(boarding)
            /\ Range(visit) = Range(boarding)
            /\ \A a \in 1 .. n : \A b \in 1 .. n :
                   a < b =>
                       /\ P'[visit[a]].destination <= P'[visit[b]].destination
                       /\ P'[visit[a]].destination = P'[visit[b]].destination
                              => PosIn(visit[a], boarding) < PosIn(visit[b], boarding)
                       /\ P'[visit[a]].time_travelling.t
                              <= P'[visit[b]].time_travelling.t
            /\ \A a \in 1 .. n :
                   /\ W'[visit[a]].time_travelling = 1
                   /\ P'[visit[a]].time_travelling.t >= 0
                   /\ P'[visit[a]].time_travelling.t <= lifts'[0].rtt.t

\* C11: when a lift departs, its boarded passengers are stored and visited in
\* non-decreasing destination order, passengers with equal destinations keep
\* their boarding order, the visited list is a permutation of the boarded
\* one, and time.travelling is non-decreasing along the visit order and never
\* above the round-trip time of the departure.
C11_VisitOrder == [][C11_Step]_vars

\* the batch boarded as [5, 2, 2, 8] has departed and is stored as [2, 2, 5, 8]
C11_Witness ==
    /\ pc = "checked"
    /\ total_traffic = 4
    /\ [j \in 1 .. 4 |-> P[j].destination] = <<5, 2, 2, 8>>
    /\ lifts[0].passengers = <<2, 3, 1, 4>>
    /\ P[2].time_travelling.t < P[1].time_travelling.t
    /\ P[4].time_travelling.t < lifts[0].rtt.t

\* every variable but err and assignment_func
C12_Rest == <<pc, iterations, clock, traffic, total_traffic, q, lifts, arrivals,
              P, W, departs, returns>>

C12_Pristine ==
    /\ pc = "setup"
    /\ clock = 0
    /\ q = <<>>
    /\ arrivals = <<>>
    /\ \A i \in LiftIds :
           lifts[i] = NewLift(lifts[i].capacity, lifts[i].capacity_threshold)

C12_Step ==
    /\ err' = "ValueError" /\ err # "ValueError" =>
           /\ assignment_func' = assignment_func
           /\ UNCHANGED C12_Rest
    /\ err' = "TypeError" /\ err # "TypeError" =>
           /\ traffic = <<None>> \/ assignment_func = "None"
           /\ assignment_func' = assignment_func
           /\ UNCHANGED C12_Rest
           /\ C12_Pristine'
    /\ pc = "setup" /\ (traffic = <<None>> \/ assignment_func = "None") =>
           C12_Pristine'
    /\ pc' # "setup" => assignment_func' \in Names /\ traffic' # <<None>>

QueuedOn(i) == {p \in Pids : W[p].lift_id = 0 /\ W'[p].lift_id = 1
                                /\ P'[p].lift_id = i}
BoardedOn(i) == {p \in Pids : W[p].time_enter_lift = 0 /\ W'[p].time_enter_lift = 1
                                 /\ P'[p].lift_id = i}

\* the head of lift i's waiting queue when the step calls check_departure:
\* the queue of the state before, else the first passenger queued by the step
HeadAtCheck(i) ==
    IF lifts[i].queue # <<>> THEN Head(lifts[i].queue)
    ELSE CHOOSE p \in QueuedOn(i) : \A r \in QueuedOn(i) : p <= r

C13_Case(i) ==
    /\ lifts[i].available
    /\ lifts[i].queue # <<>> \/ QueuedOn(i) # {}
    /\ Len(lifts[i].passengers) < lifts[i].capacity

C13_Step ==
    Stepped => \A i \in LiftIds :
        C13_Case(i) =>
            /\ BoardedOn(i) = {HeadAtCheck(i)}
            /\ P'[HeadAtCheck(i)].time_enter_lift = clock
            /\ departs'[i] = departs[i]
            /\ lifts'[i].available
            /\ lifts'[i].passengers = Append(lifts[i].passengers, HeadAtCheck(i))

\* C13: a check_departure call on an Available lift with a non-empty waiting
\* queue and boarding room boards exactly one passenger, the queue head, and
\* returns without evaluating the threshold or timeout triggers: the lift
\* does not board a passenger and depart in the same tick.
C13_BoardAndReturn == [][C13_Step]_vars

\* time.enter_lift of the first and of the last passenger boarded on lift 0
C14_FirstEnter ==
    CHOOSE e \in {P[p].time_enter_lift : p \in Range(lifts[0].passengers)} :
        \A p \in Range(lifts[0].passengers) : e <= P[p].time_enter_lift
C14_LastEnter ==
    CHOOSE e \in {P[p].time_enter_lift : p \in Range(lifts[0].passengers)} :
        \A p \in Range(lifts[0].passengers) : e >= P[p].time_enter_lift

\* check_departure is called on an Available lift with an empty queue and
\* 0 < boarded < capacity_threshold x capacity
C14_Case ==
    /\ pc = "check" /\ pc' = "checked"
    /\ lifts[0].available
    /\ lifts[0].queue = <<>>
    /\ Len(lifts[0].passengers) > 0
    /\ Len(lifts[0].passengers) * lifts[0].capacity_threshold[2]
           < lifts[0].capacity_threshold[1] * lifts[0].capacity

C14_OriginalStep ==
    C14_Case /\ clock - C14_FirstEnter > WaitLimit => departs'[0] = departs[0] + 1

\* C14 as stated: the lift departs whenever the passenger with the smallest
\* time.enter_lift has waited more than 10 ticks, even if others boarded
\* more recently.
C14_Original == [][C14_OriginalStep]_vars

C14_Step ==
    C14_Case =>
        IF clock - C14_LastEnter > WaitLimit
        THEN /\ departs'[0] = departs[0] + 1
             /\ ~lifts'[0].available
             /\ \A p \in Range(lifts[0].passengers) : P'[p].time_departure = clock
        ELSE UNCHANGED <<lifts, P, W, departs>>

\* C14 amended: for an Available lift with an empty queue and
\* 0 < boarded < capacity_threshold x capacity, check_departure departs
\* exactly when the most recently boarded passenger (largest
\* time.enter_lift) has clock - time.enter_lift > 10; otherwise it changes
\* nothing, however long the earlier boarders have waited.
C14_Timeout == [][C14_Step]_vars

\* the lift has departed on the timeout of its last boarder, 11 ticks after
\* that passenger boarded and 22 ticks after its first passenger boarded
C14_Witness ==
    /\ pc = "checked"
    /\ departs[0] = 1
    /\ Len(lifts[0].passengers) = 2
    /\ P[2].time_departure - P[2].time_enter_lift = WaitLimit + 1
    /\ P[1].time_departure - P[1].time_enter_lift = 2 * (WaitLimit + 1)

C15_Step ==
    Stepped =>
        LET due == Len(traffic) - Len(traffic')
            waiting == q \o SubSeq(traffic, 1, due)
            moved == Len(waiting) - Len(q')
        IN  /\ \E b \in 2 .. 4 : moved = Min(Len(waiting), b)
            /\ moved <= 4
            /\ moved >= Min(2, Len(waiting))
            /\ q' = SubSeq(waiting, moved + 1, Len(waiting))
            /\ \A k \in 1 .. Len(waiting) :
                   IF k <= moved
                   THEN /\ W[waiting[k]].time_lobby = 0
                        /\ W'[waiting[k]].time_lobby = 1
                        /\ P'[waiting[k]].time_lobby = clock
                        /\ P'[waiting[k]].lift_id \in LiftIds
                   ELSE /\ W'[waiting[k]].time_lobby = 0
                        /\ P'[waiting[k]].lift_id = None

\* C15: in every step, with q taken after the traffic intake, the number of
\* passengers moved from q to lift queues is min(len(q), b) for some b in
\* {2, 3, 4}: never more than 4 and at least min(2, len(q)); the passengers
\* moved are the head of q and each is stamped time.lobby = clock.
C15_AdmissionThrottle == [][C15_Step]_vars

\* the first step assigned four passengers and left others waiting in q
C15_Witness ==
    /\ clock = 1
    /\ Cardinality({p \in Pids : P[p].time_lobby = 0}) = 4
    /\ Len(q) >= 1
    /\ traffic # <<>>

\* step() moves the entries with time.start <= clock, and only those, from
\* the feed to the back of q, and takes the passengers it assigns from the
\* front of q
C16_Intake ==
    Stepped =>
        LET due == Len(traffic) - Len(traffic')
            waiting == q \o SubSeq(traffic, 1, due)
        IN  /\ traffic' = SubSeq(traffic, due + 1, Len(traffic))
            /\ \A k \in 1 .. Len(traffic) :
                   k <= due <=> P[traffic[k]].time_start <= clock
            /\ q' = SubSeq(waiting, Len(waiting) - Len(q') + 1, Len(waiting))

\* pids are positions in the feed: p < r means p comes before r
C16_Order ==
    \A p \in Pids : \A r \in Pids :
        p < r =>
            /\ W[r].time_lobby = 1 =>
                   W[p].time_lobby = 1 /\ P[p].time_lobby <= P[r].time_lobby
            /\ W[r].time_enter_lift = 1 /\ P[p].lift_id = P[r].lift_id =>
                   /\ W[p].time_enter_lift = 1
                   /\ P[p].time_enter_lift < P[r].time_enter_lift

C16_Step == C16_Intake /\ C16_Order'

\* C16: with the feed sorted by time.start, a step moves exactly the prefix
\* of the remaining feed with time.start <= clock into q, in feed order;
\* for passengers p before r in the feed, time.lobby(p) <= time.lobby(r),
\* and if both are queued on the same lift, p boards strictly before r.
C16_Fifo == [][C16_Step]_vars

\* two passengers queued on the same lift in the same tick have boarded one
\* after the other, and a third reached the building a tick later
C16_Witness ==
    /\ total_traffic = 3
    /\ P[1].lift_id = P[2].lift_id
    /\ P[1].time_lobby = P[2].time_lobby
    /\ W[2].time_enter_lift = 1
    /\ P[1].time_enter_lift < P[2].time_enter_lift
    /\ P[3].time_start = 1
    /\ P[3].time_lobby = 1

\* |get_avg_floor() - destination of q's head| of lift i, as a fraction
C17_Dist(i) ==
    LET avg == get_avg_floor(World, i)
    IN  <<Abs(avg[1] - P[Head(q)].destination * avg[2]), avg[2]>>

\* the first lift of the stable sort by C17_Dist
C17_Best ==
    CHOOSE i \in LiftIds : \A j \in LiftIds :
        \/ C17_Dist(i)[1] * C17_Dist(j)[2] < C17_Dist(j)[1] * C17_Dist(i)[2]
        \/ /\ C17_Dist(i)[1] * C17_Dist(j)[2] = C17_Dist(j)[1] * C17_Dist(i)[2]
           /\ i <= j

C17_EmptyLifts == {i \in LiftIds : get_avg_floor(World, i)[1] = 0}

C17_Target ==
    IF C17_EmptyLifts # {}
    THEN IF get_avg_floor(World, C17_Best)[1] < 5 * get_avg_floor(World, C17_Best)[2]
         THEN C17_Best
         ELSE CHOOSE i \in C17_EmptyLifts : \A j \in C17_EmptyLifts : i <= j
    ELSE C17_Best

C17_Step ==
    pc = "assign" /\ pc' = "assigned" =>
        /\ lifts' = [lifts EXCEPT ![C17_Target].queue = Append(@, Head(q))]
        /\ P' = [P EXCEPT ![Head(q)].time_lobby = clock,
                          ![Head(q)].lift_id = C17_Target]
        /\ q' = Tail(q)

C18_InRange(v) == v[1] >= 0 /\ v[1] <= v[2]

C18_Step ==
    pc = "set" /\ pc' = "set_done" /\ call.ct.type = "float" =>
        IF C18_InRange(call.ct.val)
        THEN /\ err' = "none"
             /\ lifts' = [lifts EXCEPT ![call.lift].capacity_threshold = call.ct.val]
        ELSE /\ err' # "none"
             /\ lifts' = lifts

C18_Bounded == \A i \in LiftIds : C18_InRange(lifts[i].capacity_threshold)

\* C18: set_capacity_threshold(ct) stores ct for every float 0 <= ct <= 1,
\* and raises and leaves the threshold unchanged for a float outside [0, 1];
\* the lifts' thresholds stay within [0, 1].
C18_ThresholdRange == [][C18_Step /\ C18_Bounded']_vars

\* boarded count < capacity_threshold x capacity
C20_BelowThreshold(l) ==
    Len(l.passengers) * l.capacity_threshold[2] < l.capacity_threshold[1] * l.capacity

C20_Step ==
    \A i \in LiftIds :
        lifts[i].capacity >= 1 /\ lifts[i].capacity_threshold[1] > 0 =>
            /\ departs'[i] # departs[i] =>
                   /\ Len(lifts'[i].passengers) >= 1
                   /\ Len(lifts[i].passengers) < lifts[i].capacity
            /\ Stepped /\ lifts'[i].available => C20_BelowThreshold(lifts'[i])

C19_Delivered ==
    /\ Len(arrivals) = total_traffic
    /\ \A p \in Pids : Count(p, arrivals) = 1 /\ W[p].time_arrival = 1

\* C19: for a finite feed sorted by time.start with every destination >= 1,
\* capacity >= 1 and 0 < capacity_threshold <= 1, under any strategy and any
\* batch sizes, repeated steps eventually bring every passenger of the feed
\* into arrivals: len(arrivals) eventually equals total_traffic.
C19_EventualDelivery == <>C19_Delivered

\* all three passengers of a feed are back, one of them after its lift left
\* on the waiting timeout
C19_Witness ==
    /\ total_traffic = 3
    /\ C19_Delivered
    /\ \E p \in Pids : P[p].time_departure - P[p].time_enter_lift > WaitLimit

====
